---- MODULE Spec2Model ----
(***************************************************************************)
(* Atomic shipment admission of the PBR battery shipment backend.          *)
(*                                                                         *)
(* One contract key is modelled.  The ledger (MongoDB) holds the Contract  *)
(* document and the Shipment collection; the lock backend (Redis) holds    *)
(* the key shipment:<contractId>.  Every POST /shipments request is a      *)
(* process whose program counter follows the awaits of the handler; the    *)
(* PATCH /:contractId/lock handler is a second kind of process.            *)
(*                                                                         *)
(* Ledger semantics used by the handler (session + transaction): a         *)
(* transaction reads from the snapshot taken by its first operation, its   *)
(* writes stay pending until commitTransaction, a transactional write to   *)
(* a document that was written after the snapshot (or that carries a       *)
(* pending write of another transaction) fails with a write conflict, and  *)
(* a write outside a transaction waits for a pending write on the same     *)
(* document.                                                               *)
(***************************************************************************)
EXTENDS Integers, Sequences, FiniteSets, TLC

\* ---------------------------------------------------------------- bounds
NumRequests == 2

NumAdmins == 1

MaxQty == 3

Threshold == 2

Requests == 1..NumRequests

Admins == 1..NumAdmins

\* req.body.batteriesShipped: the validator rejects -1 and 0 and accepts the others
Quantities == -1..MaxQty

\* body('threshold') of the POST /contracts request
Thresholds == {Threshold}

\* value of the Redis key when it is absent
NoLock == 0

VARIABLES
  contract,   \* the persisted Contract document
  shipments,  \* the persisted Shipment collection
  lock,       \* Redis key shipment:<contractId>: NoLock or the holder's lockValue
  pc,         \* position of each POST /shipments request in the handler
  qty,        \* req.body.batteriesShipped of each request
  snap,       \* the contract document each request read in its transaction
  stale,      \* the contract was written after the request's snapshot
  pend,       \* pending transactional writes of each request
  status,     \* shipmentStatus of each request
  err,        \* error thrown inside the handler, "" when none
  outcome,    \* response delivered to the caller, "" when none yet
  txn,        \* state of the request's ledger transaction
  adm,        \* PATCH /:contractId/lock requests
  episode,    \* history: number of locked -> unlocked changes of the contract
  overrun,    \* history: the key expired while its holder was still working
  relAbsent,  \* history: a releaseLock ran on a key that was already absent
  reclaimed,  \* history: the key of a crashed holder expired
  released,   \* history: the requests that have called releaseLock
  events,     \* the events handed to io.emit
  mail,       \* the call of sendShipmentNotification of each request
  got,        \* the status fields of the last GET /contracts and GET /contracts/:contractId
  key,        \* remaining lifetime in ms of a lock key given to extendLock, 0 when absent
  ext,        \* a call of extendLock: its timeout, the reply format of the client, its result
  coll,       \* the documents of the contracts collection, for the POST /contracts requests
  crt,        \* POST /contracts requests
  socks,      \* Socket.IO connections: state, authenticated role, rooms
  recv,       \* the events delivered to sockets
  auth,       \* client: state.auth of the redux store
  storage,    \* client: localStorage entries token, refreshToken, user
  bq          \* client: a call of baseQueryWithReauth

vars == <<contract, shipments, lock, pc, qty, snap, stale, pend, status, err,
          outcome, txn, adm, episode, overrun, relAbsent, reclaimed,
          released, events, mail, got, key, ext, coll, crt,
          socks, recv, auth, storage, bq>>

\* the state of the other routes and of the client, which the shipment and lock
\* handlers leave alone
mainVars == <<contract, shipments, lock, pc, qty, snap, stale, pend, status, err,
              outcome, txn, adm, episode, overrun, relAbsent, reclaimed,
              released, events, mail>>

statusVars == <<got>>

extendVars == <<key, ext>>

createVars == <<coll, crt>>

socketVars == <<socks, recv>>

clientVars == <<auth, storage, bq>>

sideVars == <<statusVars, extendVars, createVars, socketVars, clientVars>>

reqVars == <<pc, qty, snap, stale, pend, status, err, outcome, txn>>

\* ------------------------------------------------------------ lock client

\* SET key value NX PX timeout: succeeds only when the key is absent
acquireLock(store, lockValue) ==
  IF store = NoLock THEN [ok |-> TRUE, store |-> lockValue]
                    ELSE [ok |-> FALSE, store |-> store]

\* mutant: success is taken from the number of keys DEL removed
releaseLock_DelCount(store) ==
  [ok |-> store # NoLock, store |-> NoLock]

\* DEL key, whatever its value; the result of DEL is not looked at
releaseLock(store) ==
  [ok |-> TRUE, store |-> NoLock]

\* ------------------------------------------------------------ contract

\* notificationsSent, as the number of entries of each type
NoNotifications == [exceeded |-> 0, locked |-> 0, unlocked |-> 0]

\* req.body.contractId and req.body.deviceCount of the POST /contracts request
ContractId == "PBR-1"

DeviceCount == 2

NoContract ==
  [exists |-> FALSE, contractId |-> "", deviceCount |-> 0, batteriesShipped |-> 0,
   threshold |-> 0, isLocked |-> FALSE, notificationsSent |-> NoNotifications]

\* new Contract({contractId, deviceCount, threshold, ...}) with the schema defaults
newContract(threshold) ==
  [exists |-> TRUE, contractId |-> ContractId, deviceCount |-> DeviceCount,
   batteriesShipped |-> 0, threshold |-> threshold,
   isLocked |-> FALSE, notificationsSent |-> NoNotifications]

\* mutant: the validator only checks that the field is an integer
ValidQuantity_Any(q) == TRUE

\* body('batteriesShipped').isInt({ min: 1 })
ValidQuantity(q) == q >= 1

newTotal(doc, q) == doc.batteriesShipped + q

\* mutant: reaching the threshold already counts as exceeding it
wouldExceed_Gte(doc, q) == newTotal(doc, q) >= doc.threshold

wouldExceed(doc, q) == newTotal(doc, q) > doc.threshold

\* the filter of findOneAndUpdate in shipBatteries
shipBatteriesFilter(doc, q) ==
  /\ doc.exists
  /\ doc.isLocked = FALSE
  /\ doc.batteriesShipped + q <= doc.threshold

\* mutant: $inc is given the new total instead of the quantity
shipBatteriesUpdate_IncTotal(doc, q) ==
  [doc EXCEPT !.batteriesShipped = @ + (doc.batteriesShipped + q)]

\* mutant: the update also locks the contract when it reaches the threshold
shipBatteriesUpdate_AutoLock(doc, q) ==
  [doc EXCEPT !.batteriesShipped = @ + q,
              !.isLocked = (doc.batteriesShipped + q >= doc.threshold)]

\* the update of findOneAndUpdate in shipBatteries: $inc batteriesShipped
shipBatteriesUpdate(doc, q) ==
  [doc EXCEPT !.batteriesShipped = @ + q]

\* notificationsSent.push({email, message, type, timestamp})
addNotification(doc, type) ==
  [doc EXCEPT !.notificationsSent =
     IF type = "THRESHOLD_EXCEEDED" THEN [@ EXCEPT !.exceeded = @ + 1]
     ELSE IF type = "CONTRACT_LOCKED" THEN [@ EXCEPT !.locked = @ + 1]
     ELSE [@ EXCEPT !.unlocked = @ + 1]]

\* ------------------------------------------------------------ ledger

\* what a request keeps of the document it read
NoSnap == [exists |-> FALSE, batteriesShipped |-> 0, threshold |-> 0, isLocked |-> FALSE]

view(doc) ==
  [exists |-> doc.exists, batteriesShipped |-> doc.batteriesShipped,
   threshold |-> doc.threshold, isLocked |-> doc.isLocked]

NoPend == [contract |-> "none", shipment |-> FALSE]

\* mutant: the ledger never detects that two transactions write the same document
WriteConflict_Never(r) == FALSE

\* a transactional write of r to the contract document conflicts
WriteConflict(r) ==
  \/ stale[r]
  \/ \E o \in Requests \ {r} : pend[o].contract # "none"

\* a write outside a transaction waits while a transaction holds a pending write
ContractWritable == \A o \in Requests : pend[o].contract = "none"

\* every open snapshot other than the writer's sees an older contract now
Outdated(writer) ==
  [o \in Requests |->
     IF o # writer /\ txn[o] = "active" /\ snap[o].exists THEN TRUE ELSE stale[o]]

\* no admission request has arrived, the key is absent
InitRequests ==
  /\ lock = NoLock
  /\ pc = [r \in Requests |-> "idle"]
  /\ qty = [r \in Requests |-> 0]
  /\ snap = [r \in Requests |-> NoSnap]
  /\ stale = [r \in Requests |-> FALSE]
  /\ pend = [r \in Requests |-> NoPend]
  /\ status = [r \in Requests |-> ""]
  /\ err = [r \in Requests |-> ""]
  /\ outcome = [r \in Requests |-> ""]
  /\ txn = [r \in Requests |-> "none"]
  /\ episode = 0
  /\ overrun = FALSE
  /\ relAbsent = FALSE
  /\ reclaimed = FALSE
  /\ released = {}
  /\ events = {}
  /\ mail = [r \in Requests |-> "none"]

\* no PATCH /:contractId/lock request has arrived
InitAdmins ==
  adm = [a \in Admins |-> [pc |-> "idle", readLocked |-> FALSE, isLocked |-> FALSE]]

\* nothing has been fetched yet
InitGot == got = [list |-> "", one |-> ""]

\* extendLock has not been called (nothing in the handlers calls it)
InitExtend ==
  /\ key = 0
  /\ ext = [timeout |-> 0, reply |-> "integer", result |-> "none"]

\* concurrent POST /contracts requests
Creators == 1..2

\* no POST /contracts request has arrived
InitCreate ==
  /\ coll = {}
  /\ crt = [c \in Creators |->
              [pc |-> "idle", contractId |-> "", threshold |-> 0, outcome |-> ""]]

\* Socket.IO connections
Sockets == 1..3

\* no socket has connected
InitSockets ==
  /\ socks = [s \in Sockets |-> [state |-> "new", role |-> "", rooms |-> {}]]
  /\ recv = {}

\* null in the client
Null == "null"

\* the client has not been loaded
InitClient ==
  /\ storage = [token |-> Null, refreshToken |-> Null, user |-> Null]
  /\ auth = [user |-> Null, token |-> Null, refreshToken |-> Null,
             isAuthenticated |-> FALSE]
  /\ bq = [pc |-> "idle", args |-> "", queries |-> 0, refreshes |-> 0, result |-> "none"]

SideInit ==
  /\ InitGot
  /\ InitExtend
  /\ InitCreate
  /\ InitSockets
  /\ InitClient

Init ==
  /\ contract = NoContract
  /\ shipments = {}
  /\ InitRequests
  /\ InitAdmins
  /\ SideInit

\* POST /contracts: the contract is created once, unlocked, with nothing shipped
CreateContract(t) ==
  /\ ~contract.exists
  /\ contract' = newContract(t)
  /\ UNCHANGED <<shipments, lock, reqVars, adm, episode, overrun, relAbsent, reclaimed, released, events, mail, sideVars>>

\* mutant: the handler does not look at isLocked
isLockedCheck_Skip(doc) == FALSE

\* if (contract.isLocked) throw new Error('CONTRACT_LOCKED')
isLockedCheck(doc) == doc.isLocked

\* an exception inside the inner try: the inner finally runs next
Throw(r, e) ==
  /\ err' = [err EXCEPT ![r] = e]
  /\ pc' = [pc EXCEPT ![r] = "finally"]

\* the handler has returned: its locals are gone
Return(r, o) ==
  /\ pc' = [pc EXCEPT ![r] = "done"]
  /\ outcome' = [outcome EXCEPT ![r] = o]
  /\ snap' = [snap EXCEPT ![r] = NoSnap]
  /\ stale' = [stale EXCEPT ![r] = FALSE]
  /\ status' = [status EXCEPT ![r] = ""]
  /\ err' = [err EXCEPT ![r] = ""]

\* validationResult(req), destructuring of req.body, session.startTransaction()
\* (requests are numbered in their order of arrival)
Validate(r, q) ==
  /\ pc[r] = "idle"
  /\ \A o \in Requests : o < r => pc[o] # "idle"
  /\ qty' = [qty EXCEPT ![r] = q]
  /\ IF ValidQuantity(q)
       THEN /\ pc' = [pc EXCEPT ![r] = "acquire"]
            /\ txn' = [txn EXCEPT ![r] = "active"]
            /\ UNCHANGED <<outcome, snap, stale, status, err>>
       ELSE /\ Return(r, "VALIDATION_FAILED")
            /\ UNCHANGED txn
  /\ UNCHANGED <<contract, shipments, lock, pend, adm, episode, overrun, relAbsent, reclaimed, released, events, mail, sideVars>>

\* mutant: the early return forgets session.abortTransaction()
NotAcquired_NoAbort(r) ==
  /\ Return(r, "CONCURRENT_SHIPMENT")
  /\ UNCHANGED txn

\* if (!lockAcquired) { abortTransaction; return 423 CONCURRENT_SHIPMENT }
NotAcquired(r) ==
  /\ Return(r, "CONCURRENT_SHIPMENT")
  /\ txn' = [txn EXCEPT ![r] = "aborted"]

\* const lockAcquired = await acquireLock(redisClient, lockKey, 10000)
AcquireLock(r) ==
  /\ pc[r] = "acquire"
  /\ LET res == acquireLock(lock, r) IN
       /\ lock' = res.store
       /\ IF res.ok
            THEN /\ pc' = [pc EXCEPT ![r] = "find"]
                 /\ UNCHANGED <<txn, outcome, snap, stale, status, err>>
            ELSE NotAcquired(r)
  /\ UNCHANGED <<contract, shipments, qty, pend, adm, episode, overrun, relAbsent, reclaimed, released, events, mail, sideVars>>

\* redisClient.set throws: acquireLock catches it and returns false
AcquireLockError(r) ==
  /\ pc[r] = "acquire"
  /\ NotAcquired(r)
  /\ UNCHANGED <<contract, shipments, lock, qty, pend, adm, episode, overrun,
                 relAbsent, reclaimed, released, events, mail, sideVars>>

\* Contract.findOne({ contractId }).session(session), the two checks and wouldExceed
FindContract(r) ==
  /\ pc[r] = "find"
  /\ snap' = [snap EXCEPT ![r] = view(contract)]
  /\ stale' = [stale EXCEPT ![r] = FALSE]
  /\ IF ~contract.exists
       THEN Throw(r, "CONTRACT_NOT_FOUND") /\ UNCHANGED status
       ELSE IF isLockedCheck(contract)
         THEN Throw(r, "CONTRACT_LOCKED") /\ UNCHANGED status
         ELSE IF wouldExceed(contract, qty[r])
           THEN /\ status' = [status EXCEPT ![r] = "BLOCKED"]
                /\ pc' = [pc EXCEPT ![r] = "lockContract"]
                /\ UNCHANGED err
           ELSE /\ status' = [status EXCEPT ![r] = "APPROVED"]
                /\ pc' = [pc EXCEPT ![r] = "ship"]
                /\ UNCHANGED err
  /\ UNCHANGED <<contract, shipments, lock, qty, pend, outcome, txn,
                 adm, episode, overrun, relAbsent, reclaimed, released, events, mail, sideVars>>

\* a transactional write that hits a write conflict throws; the server aborts the transaction
ThrowWriteConflict(r) ==
  /\ Throw(r, "WRITE_CONFLICT")
  /\ txn' = [txn EXCEPT ![r] = "aborted"]
  /\ UNCHANGED pend

\* contract.isLocked = true; await contract.save({ session })
LockContract(r) ==
  /\ pc[r] = "lockContract"
  /\ IF WriteConflict(r)
       THEN ThrowWriteConflict(r)
       ELSE /\ pend' = [pend EXCEPT ![r].contract = "lock"]
            /\ pc' = [pc EXCEPT ![r] = "saveShipment"]
            /\ UNCHANGED <<err, txn>>
  /\ UNCHANGED <<contract, shipments, lock, qty, snap, stale, status, outcome,
                 adm, episode, overrun, relAbsent, reclaimed, released, events, mail, sideVars>>

\* mutant: shipBatteries is called without the session, so findOneAndUpdate runs
\* outside the transaction, on the persisted document, and is persisted at once
ShipBatteries_NoSession(r) ==
  /\ pc[r] = "ship"
  /\ ContractWritable
  /\ IF shipBatteriesFilter(view(contract), qty[r])
       THEN /\ contract' = shipBatteriesUpdate(contract, qty[r])
            /\ pc' = [pc EXCEPT ![r] = "saveShipment"]
            /\ UNCHANGED err
       ELSE /\ Throw(r, "ATOMIC_UPDATE_FAILED")
            /\ UNCHANGED contract
  /\ UNCHANGED <<shipments, lock, qty, snap, stale, pend, status, outcome, txn,
                 adm, episode, overrun, relAbsent, reclaimed, released, events, mail, sideVars>>

\* const updatedContract = await contract.shipBatteries(batteriesShipped, session)
\* if (!updatedContract) throw new Error('ATOMIC_UPDATE_FAILED')
ShipBatteries(r) ==
  /\ pc[r] = "ship"
  /\ IF WriteConflict(r)
       THEN ThrowWriteConflict(r)
       ELSE IF shipBatteriesFilter(snap[r], qty[r])
         THEN /\ pend' = [pend EXCEPT ![r].contract = "inc"]
              /\ pc' = [pc EXCEPT ![r] = "saveShipment"]
              /\ UNCHANGED <<err, txn>>
         ELSE /\ Throw(r, "ATOMIC_UPDATE_FAILED")
              /\ UNCHANGED <<pend, txn>>
  /\ UNCHANGED <<contract, shipments, lock, qty, snap, stale, status, outcome,
                 adm, episode, overrun, relAbsent, reclaimed, released, events, mail, sideVars>>

\* blockReason = null
NoReason == <<>>

\* mutant: the message reports the current total instead of the projected one
blockReason_Current(doc, q) == <<doc.batteriesShipped, doc.threshold>>

\* `Shipment would exceed threshold (${newTotal}/${contract.threshold})`:
\* the two numbers the message embeds
blockReason(doc, q) == <<newTotal(doc, q), doc.threshold>>

\* the Shipment document the request inserts (pre and episode are history:
\* the batteriesShipped the request read, and the lock episode of the commit)
newShipment(r) ==
  [req |-> r, batteriesShipped |-> qty[r], status |-> status[r],
   blockReason |-> IF status[r] = "BLOCKED" THEN blockReason(snap[r], qty[r])
                                            ELSE NoReason,
   pre |-> snap[r].batteriesShipped, episode |-> episode]

\* mutant: shipment.save() is called without the session and persists at once
SaveShipment_NoSession(r) ==
  /\ pc[r] = "saveShipment"
  /\ shipments' = shipments \cup {newShipment(r)}
  /\ pc' = [pc EXCEPT ![r] = "commit"]
  /\ UNCHANGED <<contract, lock, qty, snap, stale, pend, status, err, outcome,
                 txn, adm, episode, overrun, relAbsent, reclaimed, released, events, mail, sideVars>>

\* new Shipment({...}); await shipment.save({ session })
SaveShipment(r) ==
  /\ pc[r] = "saveShipment"
  /\ pend' = [pend EXCEPT ![r].shipment = TRUE]
  /\ pc' = [pc EXCEPT ![r] = "commit"]
  /\ UNCHANGED <<contract, shipments, lock, qty, snap, stale, status, err, outcome,
                 txn, adm, episode, overrun, relAbsent, reclaimed, released, events, mail, sideVars>>

\* the contract after a pending write of a request is applied
applyPending(doc, w, q) ==
  IF w = "inc" THEN shipBatteriesUpdate(doc, q)
  ELSE IF w = "lock" THEN [doc EXCEPT !.isLocked = TRUE]
  ELSE doc

\* mutant: the handler does not release after the commit, only in the finally block
CommitTransaction_NoRelease(r) ==
  /\ pc[r] = "commit"
  /\ contract' = applyPending(contract, pend[r].contract, qty[r])
  /\ shipments' = IF pend[r].shipment THEN shipments \cup {newShipment(r)}
                                       ELSE shipments
  /\ stale' = IF pend[r].contract # "none" THEN Outdated(r) ELSE stale
  /\ pend' = [pend EXCEPT ![r] = NoPend]
  /\ txn' = [txn EXCEPT ![r] = "committed"]
  /\ pc' = [pc EXCEPT ![r] = IF status[r] = "BLOCKED" THEN "notify" ELSE "emit"]
  /\ UNCHANGED <<lock, qty, snap, status, err, outcome, adm, episode, overrun,
                 relAbsent, reclaimed, released, events, mail, sideVars>>

\* await session.commitTransaction(): the pending writes become visible together
CommitTransaction(r) ==
  /\ pc[r] = "commit"
  /\ contract' = applyPending(contract, pend[r].contract, qty[r])
  /\ shipments' = IF pend[r].shipment THEN shipments \cup {newShipment(r)}
                                       ELSE shipments
  /\ stale' = IF pend[r].contract # "none" THEN Outdated(r) ELSE stale
  /\ pend' = [pend EXCEPT ![r] = NoPend]
  /\ txn' = [txn EXCEPT ![r] = "committed"]
  /\ pc' = [pc EXCEPT ![r] = "release1"]
  /\ UNCHANGED <<lock, qty, snap, status, err, outcome, adm, episode, overrun,
                 relAbsent, reclaimed, released, events, mail, sideVars>>

\* await releaseLock(redisClient, lockKey) right after the commit
ReleaseAfterCommit(r) ==
  /\ pc[r] = "release1"
  /\ lock' = releaseLock(lock).store
  /\ released' = released \cup {r}
  /\ relAbsent' = (relAbsent \/ lock = NoLock)
  /\ pc' = [pc EXCEPT ![r] = IF status[r] = "BLOCKED" THEN "notify" ELSE "emit"]
  /\ UNCHANGED <<contract, shipments, qty, snap, stale, pend, status, err, outcome,
                 txn, adm, episode, overrun, reclaimed, events, mail, sideVars>>

\* await shipment.populate(...), then
\* await contract.addNotification(email, message, 'THRESHOLD_EXCEEDED'): a save after the commit
NotifyBlocked(r) ==
  /\ pc[r] = "notify"
  /\ ContractWritable
  /\ contract' = addNotification(contract, "THRESHOLD_EXCEEDED")
  /\ stale' = Outdated(r)
  /\ pc' = [pc EXCEPT ![r] = "email"]
  /\ UNCHANGED <<shipments, lock, qty, snap, pend, status, err, outcome, txn,
                 adm, episode, overrun, relAbsent, reclaimed, released, events, mail, sideVars>>

\* mutant: the dispatcher call is not wrapped in try/catch
SendEmail_Propagates(r) ==
  /\ pc[r] = "email"
  /\ \E ok \in BOOLEAN :
       /\ mail' = [mail EXCEPT ![r] = IF ok THEN "sent" ELSE "failed"]
       /\ IF ok THEN pc' = [pc EXCEPT ![r] = "emit"] /\ UNCHANGED err
                ELSE Throw(r, "BACKEND")
  /\ UNCHANGED <<contract, shipments, lock, qty, snap, stale, pend, status,
                 outcome, txn, adm, episode, overrun, relAbsent, reclaimed, released,
                 events, sideVars>>

\* try { await sendShipmentNotification(...) } catch (emailError) { log }:
\* the dispatcher is called; whether it resolves or throws, the handler goes on
SendEmail(r) ==
  /\ pc[r] = "email"
  /\ \E ok \in BOOLEAN :
       mail' = [mail EXCEPT ![r] = IF ok THEN "sent" ELSE "failed"]
  /\ pc' = [pc EXCEPT ![r] = "emit"]
  /\ UNCHANGED <<contract, shipments, lock, qty, snap, stale, pend, status, err,
                 outcome, txn, adm, episode, overrun, relAbsent, reclaimed, released,
                 events, sideVars>>

\* io.emit('shipment:created', {shipment, contract: {contractId, batteriesShipped,
\* threshold, isLocked}}): to every connected socket, with the fields of the
\* document the handler read
shipmentCreated(r) ==
  [name |-> "shipment:created", req |-> r, to |-> "all",
   batteriesShipped |-> snap[r].batteriesShipped]

\* io.emit('contract:threshold_exceeded', {contractId, batteriesShipped: newTotal,
\* threshold})
thresholdExceeded(r) ==
  [name |-> "contract:threshold_exceeded", req |-> r, to |-> "all",
   batteriesShipped |-> newTotal(snap[r], qty[r])]

\* the events of lines 377-393 for request r
emitted(r) ==
  IF status[r] = "BLOCKED" THEN {shipmentCreated(r), thresholdExceeded(r)}
                           ELSE {shipmentCreated(r)}

\* (shipment.populate on the APPROVED path,) io.emit('shipment:created'),
\* io.emit('contract:threshold_exceeded'), res.status(201).json(...)
EmitAndRespond(r) ==
  /\ pc[r] = "emit"
  /\ events' = events \cup emitted(r)
  /\ outcome' = [outcome EXCEPT ![r] = status[r]]
  /\ pc' = [pc EXCEPT ![r] = "finally"]
  /\ UNCHANGED <<contract, shipments, lock, qty, snap, stale, pend, status, err,
                 txn, adm, episode, overrun, relAbsent, reclaimed, released, mail, sideVars>>

\* the second io.emit throws (a throw of the first one is Fail at "emit"): nothing
\* around the calls catches it, and 'shipment:created' is already out
EmitFails(r) ==
  /\ pc[r] = "emit"
  /\ status[r] = "BLOCKED"
  /\ events' = events \cup {shipmentCreated(r)}
  /\ Throw(r, "BACKEND")
  /\ UNCHANGED <<contract, shipments, lock, qty, snap, stale, pend, status, outcome,
                 txn, adm, episode, overrun, relAbsent, reclaimed, released, mail, sideVars>>

\* redisClient.del throws: releaseLock catches it and returns false, the key stays;
\* the handler does not look at the result (either call site)
ReleaseLockError(r) ==
  /\ pc[r] \in {"release1", "finally"}
  /\ released' = released \cup {r}
  /\ IF pc[r] = "release1"
       THEN /\ pc' = [pc EXCEPT ![r] = IF status[r] = "BLOCKED" THEN "notify" ELSE "emit"]
            /\ UNCHANGED <<outcome, snap, stale, status, err>>
       ELSE IF err[r] = ""
         THEN Return(r, outcome[r])
         ELSE /\ pc' = [pc EXCEPT ![r] = "catch"]
              /\ UNCHANGED <<outcome, snap, stale, status, err>>
  /\ UNCHANGED <<contract, shipments, lock, qty, pend, txn, adm, episode, overrun,
                 relAbsent, reclaimed, events, mail, sideVars>>

\* mutant: the second release is not in a finally block and is skipped by a throw
FinallyRelease_SuccessOnly(r) ==
  /\ pc[r] = "finally"
  /\ lock' = IF err[r] = "" THEN releaseLock(lock).store ELSE lock
  /\ released' = IF err[r] = "" THEN released \cup {r} ELSE released
  /\ relAbsent' = (relAbsent \/ (err[r] = "" /\ lock = NoLock))
  /\ IF err[r] = ""
       THEN Return(r, outcome[r])
       ELSE /\ pc' = [pc EXCEPT ![r] = "catch"]
            /\ UNCHANGED <<outcome, snap, stale, status, err>>
  /\ UNCHANGED <<contract, shipments, qty, pend, txn, adm, episode, overrun, reclaimed, events, mail, sideVars>>

\* finally { await releaseLock(redisClient, lockKey) }
FinallyRelease(r) ==
  /\ pc[r] = "finally"
  /\ lock' = releaseLock(lock).store
  /\ released' = released \cup {r}
  /\ relAbsent' = (relAbsent \/ lock = NoLock)
  /\ IF err[r] = ""
       THEN Return(r, outcome[r])
       ELSE /\ pc' = [pc EXCEPT ![r] = "catch"]
            /\ UNCHANGED <<outcome, snap, stale, status, err>>
  /\ UNCHANGED <<contract, shipments, qty, pend, txn, adm, episode, overrun, reclaimed, events, mail, sideVars>>

\* the response the outer catch sends for an error message
errorResponse(e) ==
  IF e = "CONTRACT_NOT_FOUND" THEN "CONTRACT_NOT_FOUND"
  ELSE IF e = "CONTRACT_LOCKED" THEN "CONTRACT_LOCKED"
  ELSE "CREATE_ERROR"

\* mutant: the catch block compensates by deleting the shipment of the request
CatchAbort_DeleteShipment(r) ==
  /\ pc[r] = "catch"
  /\ shipments' = {s \in shipments : s.req # r}
  /\ IF txn[r] = "committed"
       THEN /\ Return(r, "UNHANDLED_REJECTION")
            /\ UNCHANGED <<txn, pend>>
       ELSE /\ txn' = [txn EXCEPT ![r] = "aborted"]
            /\ pend' = [pend EXCEPT ![r] = NoPend]
            /\ Return(r, errorResponse(err[r]))
  /\ UNCHANGED <<contract, lock, qty, adm, episode, overrun, relAbsent, reclaimed,
                 released, events, mail, sideVars>>

\* catch (error) { await session.abortTransaction(); ...res.status(...) }
\* abortTransaction after commitTransaction throws: the handler rejects without a response
CatchAbort(r) ==
  /\ pc[r] = "catch"
  /\ IF txn[r] = "committed"
       THEN /\ Return(r, "UNHANDLED_REJECTION")
            /\ UNCHANGED <<txn, pend>>
       ELSE /\ txn' = [txn EXCEPT ![r] = "aborted"]
            /\ pend' = [pend EXCEPT ![r] = NoPend]
            /\ Return(r, errorResponse(err[r]))
  /\ UNCHANGED <<contract, shipments, lock, qty, adm, episode, overrun, relAbsent, reclaimed, released, events, mail, sideVars>>

\* the awaits inside the inner try that reach the ledger or the socket server
FailPoints ==
  {"find", "lockContract", "ship", "saveShipment", "commit", "notify", "emit"}

\* one of those awaits rejects (backend unavailable, validation of the document, ...)
Fail(r) ==
  /\ pc[r] \in FailPoints
  /\ Throw(r, "BACKEND")
  /\ UNCHANGED <<contract, shipments, lock, qty, snap, stale, pend, status, outcome,
                 txn, adm, episode, overrun, relAbsent, reclaimed, released, events, mail, sideVars>>

\* positions at which the server process of a request may die
Running ==
  FailPoints \cup {"acquire", "release1", "email", "finally", "catch"}

\* the process dies: nothing more of the handler runs, the ledger drops the open transaction
Crash(r) ==
  /\ pc[r] \in Running
  /\ pc' = [pc EXCEPT ![r] = "crashed"]
  /\ txn' = [txn EXCEPT ![r] = IF @ = "active" THEN "aborted" ELSE @]
  /\ pend' = [pend EXCEPT ![r] = NoPend]
  /\ snap' = [snap EXCEPT ![r] = NoSnap]
  /\ stale' = [stale EXCEPT ![r] = FALSE]
  /\ status' = [status EXCEPT ![r] = ""]
  /\ err' = [err EXCEPT ![r] = ""]
  /\ UNCHANGED <<contract, shipments, lock, qty, outcome, adm, episode, overrun,
                 relAbsent, reclaimed, released, events, mail, sideVars>>

\* mutant: the key is set without PX and never disappears on its own
ExpireLock_NoTTL ==
  /\ lock # NoLock
  /\ UNCHANGED vars

\* PX timeout: the key disappears on its own
ExpireLock ==
  /\ lock # NoLock
  /\ lock' = NoLock
  /\ overrun' = (overrun \/ pc[lock] # "crashed")
  /\ reclaimed' = (reclaimed \/ pc[lock] = "crashed")
  /\ UNCHANGED <<contract, shipments, reqVars, adm, episode, relAbsent, released, events, mail, sideVars>>

\* req.body.isLocked of PATCH /:contractId/lock: true, false or undefined
LockArgs == {"true", "false", "undefined"}

\* const contract = await Contract.findOne({ contractId }); contract.isLocked = ...
ManualFind(a, arg) ==
  /\ adm[a].pc = "idle"
  /\ IF ~contract.exists
       THEN adm' = [adm EXCEPT ![a].pc = "done"]
       ELSE adm' = [adm EXCEPT ![a] =
              [pc |-> "addNotification",
               readLocked |-> contract.isLocked,
               isLocked |-> IF arg = "undefined" THEN ~contract.isLocked
                            ELSE arg = "true"]]
  /\ UNCHANGED <<contract, shipments, lock, reqVars, episode, overrun, relAbsent, reclaimed, released, events, mail, sideVars>>

\* await contract.addNotification(...): saves the modified paths of the document
ManualAddNotification(a) ==
  /\ adm[a].pc = "addNotification"
  /\ ContractWritable
  /\ contract' =
       [addNotification(contract,
          IF adm[a].isLocked THEN "CONTRACT_LOCKED" ELSE "CONTRACT_UNLOCKED")
        EXCEPT !.isLocked = IF adm[a].isLocked # adm[a].readLocked
                              THEN adm[a].isLocked ELSE @]
  /\ episode' = IF contract.isLocked /\ ~contract'.isLocked THEN episode + 1 ELSE episode
  /\ stale' = Outdated(0)
  /\ adm' = [adm EXCEPT ![a].pc = "save"]
  /\ UNCHANGED <<shipments, lock, pc, qty, snap, pend, status, err, outcome, txn,
                 overrun, relAbsent, reclaimed, released, events, mail, sideVars>>

\* mutant: the handler also takes a threshold from the request body
ManualSave_Threshold(a) ==
  /\ adm[a].pc = "save"
  /\ ContractWritable
  /\ contract' = [contract EXCEPT !.threshold = @ + 1]
  /\ stale' = Outdated(0)
  /\ adm' = [adm EXCEPT ![a].pc = "done"]
  /\ UNCHANGED <<shipments, lock, pc, qty, snap, pend, status, err, outcome,
                 txn, episode, overrun, relAbsent, reclaimed, released, events, mail, sideVars>>

\* await contract.save(): only lastUpdated is written; io.emit; res.json
ManualSave(a) ==
  /\ adm[a].pc = "save"
  /\ ContractWritable
  /\ stale' = Outdated(0)
  /\ adm' = [adm EXCEPT ![a].pc = "done"]
  /\ UNCHANGED <<contract, shipments, lock, pc, qty, snap, pend, status, err, outcome,
                 txn, episode, overrun, relAbsent, reclaimed, released, events, mail, sideVars>>

Next ==
  \/ \E t \in Thresholds : CreateContract(t)
  \/ \E r \in Requests, q \in Quantities : Validate(r, q)
  \/ \E r \in Requests : AcquireLock(r)
  \/ \E r \in Requests : AcquireLockError(r)
  \/ \E r \in Requests : FindContract(r)
  \/ \E r \in Requests : LockContract(r)
  \/ \E r \in Requests : ShipBatteries(r)
  \/ \E r \in Requests : SaveShipment(r)
  \/ \E r \in Requests : CommitTransaction(r)
  \/ \E r \in Requests : ReleaseAfterCommit(r)
  \/ \E r \in Requests : NotifyBlocked(r)
  \/ \E r \in Requests : SendEmail(r)
  \/ \E r \in Requests : EmitAndRespond(r)
  \/ \E r \in Requests : EmitFails(r)
  \/ \E r \in Requests : FinallyRelease(r)
  \/ \E r \in Requests : CatchAbort(r)
  \/ \E r \in Requests : Fail(r)
  \/ \E r \in Requests : Crash(r)
  \/ ExpireLock
  \/ \E a \in Admins, arg \in LockArgs : ManualFind(a, arg)
  \/ \E a \in Admins : ManualAddNotification(a)
  \/ \E a \in Admins : ManualSave(a)

Spec == Init /\ [][Next]_vars

\* the same system with a lock backend that can also fail a DEL
FaultNext ==
  \/ Next
  \/ \E r \in Requests : ReleaseLockError(r)

FaultSpec == Init /\ [][FaultNext]_vars

\* ------------------------------------------------------------ properties

Approved == {s \in shipments : s.status = "APPROVED"}

Blocked == {s \in shipments : s.status = "BLOCKED"}

RECURSIVE SumQty(_)
SumQty(S) ==
  IF S = {} THEN 0
  ELSE LET s == CHOOSE x \in S : TRUE IN s.batteriesShipped + SumQty(S \ {s})

RECURSIVE SumIssued(_)
SumIssued(R) ==
  IF R = {} THEN 0
  ELSE LET r == CHOOSE x \in R : TRUE IN
         (IF pc[r] # "idle" /\ ValidQuantity(qty[r]) THEN qty[r] ELSE 0)
           + SumIssued(R \ {r})

\* r has acquired the lock and its transaction is neither committed nor aborted
InCriticalSection(r) ==
  \/ pc[r] \in {"find", "lockContract", "ship", "saveShipment", "commit"}
  \/ pc[r] \in {"finally", "catch"} /\ txn[r] = "active"

\* the step is a releaseLock call of request r
ReleaseStep(r) ==
  /\ pc[r] \in {"release1", "finally"}
  /\ pc'[r] \notin {pc[r], "crashed"}

\* C1: the persisted batteriesShipped of the contract is never greater than its
\* threshold, whatever the interleaving of requests, lock expiries and manual
\* lock/unlock actions.
C1_NeverExceedsThreshold ==
  contract.exists => contract.batteriesShipped <= contract.threshold

\* an admitted and a blocked shipment are persisted, and admitting the blocked one
\* would have exceeded the threshold
C1_Witness ==
  \E s \in Approved, b \in Blocked :
    contract.batteriesShipped + b.batteriesShipped > contract.threshold

\* C2: in every committed ledger state batteriesShipped is the sum of the quantities
\* of the persisted APPROVED shipments (the contract starts with 0 shipped): an
\* increment and its APPROVED record are committed together or not at all.
C2_LedgerSum ==
  contract.batteriesShipped = SumQty(Approved)

\* a request fails (or is about to be aborted) with its increment pending, after
\* another request's increment was committed
C2_Witness ==
  \E r \in Requests :
    /\ pend[r].contract = "inc"
    /\ err[r] = "BACKEND"
    /\ Approved # {}

\* C3: provided no holder's work outlasts the TTL of the key, at most one request is
\* between its successful acquireLock and the commit or abort of its transaction.
C3_MutualExclusion ==
  ~overrun => Cardinality({r \in Requests : InCriticalSection(r)}) <= 1

\* C4: a releaseLock of a request that does not hold the key leaves the key of the
\* request that holds it in place.
C4_ReleaseKeepsOtherHolder ==
  [][\A r \in Requests :
       (ReleaseStep(r) /\ lock # NoLock /\ lock # r) => lock' = lock]_vars

C6_NoLostUpdate ==
  \A s \in Approved :
    /\ \A t \in Approved : t # s => t.pre # s.pre
    /\ s.pre = SumQty({t \in Approved : t.pre < s.pre})

\* two requests read the same batteriesShipped; one committed its increment, the
\* other one was refused by the ledger
C6_Witness ==
  \E r \in Requests, s \in Approved :
    /\ s.req # r
    /\ status[r] = "APPROVED"
    /\ err[r] = "WRITE_CONFLICT"
    /\ snap[r].batteriesShipped = s.pre

\* C7: while the quantities of all requests issued so far sum to at most the
\* threshold (the contract starts with 0 shipped), no request is BLOCKED and the
\* contract is not locked by an admission.
C7_NoSpuriousBlock ==
  (contract.exists /\ SumIssued(Requests) <= contract.threshold) =>
     /\ Blocked = {}
     /\ \A r \in Requests : status[r] # "BLOCKED" /\ outcome[r] # "BLOCKED"
     /\ contract.isLocked => contract.notificationsSent.locked > 0

\* several requests that sum to exactly the threshold were all admitted
C7_Witness ==
  /\ contract.exists
  /\ SumIssued(Requests) = contract.threshold
  /\ contract.batteriesShipped = contract.threshold
  /\ Cardinality(Approved) >= 2

\* a BLOCKED shipment was committed since the contract was created or last unlocked
BlockedThisEpisode == \E s \in Blocked : s.episode = episode

\* C8: in one lock episode (from the creation or a manual unlock to the next manual
\* unlock) at most one BLOCKED shipment is committed; its projected total exceeds
\* the threshold and it leaves the contract locked; until the unlock no other
\* shipment is committed and every request that reads the contract gets
\* CONTRACT_LOCKED.
C8_OneBlockedPerEpisode ==
  [][/\ \A s, t \in Blocked' : s.episode = t.episode => s = t
     /\ \A s \in Blocked' : s.pre + s.batteriesShipped > contract'.threshold
     /\ BlockedThisEpisode' => contract'.isLocked
     /\ BlockedThisEpisode => shipments' = shipments
     /\ \A r \in Requests :
          (BlockedThisEpisode /\ pc[r] = "find" /\ pc'[r] \notin {"find", "crashed"}
             /\ err'[r] # "BACKEND")
            => err'[r] = "CONTRACT_LOCKED"]_vars

\* a BLOCKED shipment was committed and a later request met the locked contract
C8_Witness ==
  /\ Cardinality(Blocked) = 1
  /\ BlockedThisEpisode
  /\ \E r \in Requests : err[r] = "CONTRACT_LOCKED"

\* the step commits a BLOCKED admission
BlockedCommitStep ==
  \E r \in Requests :
    pc[r] = "commit" /\ pc'[r] = "release1" /\ status[r] = "BLOCKED"

\* the step is the save of a PATCH /:contractId/lock request with the given value
ManualStep(v) ==
  \E a \in Admins :
    adm[a].pc = "addNotification" /\ adm'[a].pc = "save" /\ adm[a].isLocked = v

\* C9: isLocked goes from false to true only in the commit of a BLOCKED admission or
\* in a manual lock, and from true to false only in a manual unlock.
C9_LockTransitions ==
  [][/\ (contract.exists /\ ~contract.isLocked /\ contract'.isLocked)
          => (BlockedCommitStep \/ ManualStep(TRUE))
     /\ (contract.isLocked /\ ~contract'.isLocked) => ManualStep(FALSE)]_vars

\* the contract was locked by an admission and unlocked by hand, and requests have
\* failed or met the locked contract in the meantime
C9_Witness ==
  /\ episode >= 1
  /\ Blocked # {}
  /\ ~contract.isLocked
  /\ \E r \in Requests : outcome[r] \in {"CONTRACT_LOCKED", "CREATE_ERROR"}

\* C10: batteriesShipped is never negative, and every step that changes it starts
\* with isLocked false.
C10_FrozenWhileLocked ==
  [][/\ contract'.batteriesShipped >= 0
     /\ contract'.batteriesShipped # contract.batteriesShipped => ~contract.isLocked]_vars

\* an admission read the unlocked contract, the contract was then locked by hand,
\* and the ledger refused the admission's increment
C10_Witness ==
  \E r \in Requests :
    /\ status[r] = "APPROVED"
    /\ err[r] = "WRITE_CONFLICT"
    /\ contract.isLocked
    /\ contract.notificationsSent.locked > 0
    /\ Blocked = {}

\* the step is request r's read of the contract, answered by the ledger
ReadStep(r) ==
  /\ pc[r] = "find"
  /\ pc'[r] \notin {"find", "crashed"}
  /\ err'[r] # "BACKEND"

\* the step is the commit of request r's transaction
CommitStep(r) == pc[r] = "commit" /\ pc'[r] = "release1"

\* the shipments the step persists
Created == shipments' \ shipments

\* C11: a request that reads an unlocked contract with batteriesShipped + quantity
\* above the threshold is decided BLOCKED; its commit persists one BLOCKED shipment
\* whose blockReason carries projected/threshold, sets isLocked, and leaves
\* batteriesShipped as it was.
C11_BlockedScenario ==
  [][\A r \in Requests :
       /\ (ReadStep(r) /\ contract.exists /\ ~contract.isLocked
             /\ contract.batteriesShipped + qty[r] > contract.threshold)
            => (status'[r] = "BLOCKED" /\ pc'[r] = "lockContract")
       /\ (CommitStep(r) /\ status[r] = "BLOCKED")
            => /\ ~contract.isLocked
               /\ \E s \in Created :
                    /\ Created = {s}
                    /\ s.req = r /\ s.status = "BLOCKED"
                    /\ s.batteriesShipped = qty[r]
                    /\ s.blockReason = <<contract.batteriesShipped + qty[r],
                                         contract.threshold>>
                    /\ s.blockReason[1] > s.blockReason[2]
               /\ contract'.isLocked
               /\ contract'.batteriesShipped = contract.batteriesShipped]_vars

\* with part of the quota shipped, a request above the rest was committed as BLOCKED
C11_Witness ==
  \E s \in Blocked :
    /\ s.pre > 0
    /\ contract.batteriesShipped = s.pre
    /\ contract.isLocked
    /\ s.blockReason = <<s.pre + s.batteriesShipped, contract.threshold>>

\* C12: a request that reads an unlocked contract with batteriesShipped + quantity
\* at most the threshold (the sum may equal the threshold) is decided APPROVED; its
\* commit persists one APPROVED shipment, adds exactly the quantity to
\* batteriesShipped, and leaves isLocked false.
C12_ApprovedScenario ==
  [][\A r \in Requests :
       /\ (ReadStep(r) /\ contract.exists /\ ~contract.isLocked
             /\ contract.batteriesShipped + qty[r] <= contract.threshold)
            => (status'[r] = "APPROVED" /\ pc'[r] = "ship")
       /\ (CommitStep(r) /\ status[r] = "APPROVED")
            => /\ ~contract.isLocked
               /\ \E s \in Created :
                    /\ Created = {s}
                    /\ s.req = r /\ s.status = "APPROVED"
                    /\ s.batteriesShipped = qty[r]
                    /\ s.blockReason = NoReason
               /\ contract'.batteriesShipped = contract.batteriesShipped + qty[r]
               /\ contract'.batteriesShipped <= contract'.threshold
               /\ ~contract'.isLocked]_vars

\* with part of the quota shipped, a request for exactly the rest was committed as
\* APPROVED and the contract is full and unlocked
C12_Witness ==
  \E s \in Approved :
    /\ s.pre > 0
    /\ s.pre + s.batteriesShipped = contract.threshold
    /\ contract.batteriesShipped = contract.threshold
    /\ ~contract.isLocked
    /\ Blocked = {}

ContendedStep(r) ==
  /\ pc[r] = "acquire"
  /\ lock # NoLock
  /\ pc'[r] \notin {"acquire", "crashed"}

\* the request returns at once and leaves the ledger and the key alone
Untouched(r) ==
  /\ pc'[r] = "done"
  /\ contract' = contract
  /\ shipments' = shipments
  /\ pend' = pend
  /\ snap'[r] = NoSnap
  /\ txn'[r] = "aborted"
  /\ lock' = lock

HandlerStep(r) ==
  \/ AcquireLock(r)
  \/ FindContract(r)
  \/ LockContract(r)
  \/ ShipBatteries(r)
  \/ SaveShipment(r)
  \/ CommitTransaction(r)
  \/ ReleaseAfterCommit(r)
  \/ NotifyBlocked(r)
  \/ SendEmail(r)
  \/ EmitAndRespond(r)
  \/ FinallyRelease(r)
  \/ CatchAbort(r)

\* the event loop resumes every handler whose await has settled, and the store
\* drops a key whose PX time has passed
LiveSpec ==
  /\ Spec
  /\ \A r \in Requests : WF_vars(HandlerStep(r))
  /\ WF_vars(ExpireLock)

\* C15: a request that has acquired the key calls releaseLock later on, whichever
\* way it leaves the handler, unless its process dies first.
C15_AlwaysReleases ==
  \A r \in Requests :
    (pc[r] = "find") ~> (r \in released \/ pc[r] = "crashed")

\* requests have left through an error after the read and through a failure after
\* the commit, and the key is absent
C15_Witness ==
  \E r, o \in Requests :
    /\ outcome[r] = "UNHANDLED_REJECTION"
    /\ outcome[o] \in {"CONTRACT_LOCKED", "CREATE_ERROR"}
    /\ released = {r, o}
    /\ lock = NoLock
    /\ ~overrun
    /\ ~reclaimed

\* C16: a key whose holder died without releasing it does not stay: it leads to a
\* state in which the key is absent and acquireLock succeeds for any request.
C16_CrashedLockExpires ==
  \A r \in Requests :
    (lock = r /\ pc[r] = "crashed")
      ~> (lock = NoLock /\ \A o \in Requests : acquireLock(lock, o).ok)

\* the key of a crashed holder has expired and a later request holds the key
C16_Witness ==
  \E r, o \in Requests :
    /\ pc[r] = "crashed"
    /\ reclaimed
    /\ r \notin released
    /\ lock = o
    /\ pc[o] = "find"

\* the ways a request ends other than the 201 response
ErrorOutcomes ==
  {"VALIDATION_FAILED", "CONCURRENT_SHIPMENT", "CONTRACT_NOT_FOUND",
   "CONTRACT_LOCKED", "CREATE_ERROR", "UNHANDLED_REJECTION"}

\* C17: a request that ends with an error has persisted nothing: its transaction
\* was not committed and no shipment of it exists.
C17_NoSideEffectsOnError ==
  \A r \in Requests :
    outcome[r] \in ErrorOutcomes =>
      /\ txn[r] # "committed"
      /\ \A s \in shipments : s.req # r

\* the shipments of request r
Of(r) == {s \in shipments : s.req = r}

\* the ways a request is turned away before or at the write step
Rejections ==
  {"VALIDATION_FAILED", "CONCURRENT_SHIPMENT", "CONTRACT_NOT_FOUND",
   "CONTRACT_LOCKED", "CREATE_ERROR"}

\* C18: a request has at most one shipment; it has one exactly when its transaction
\* was committed, the shipment then carries the status the request decided, a 201
\* response implies one, and a rejected request has none; a shipment is only ever
\* added by the commit of a request that had none.
C18_OneShipmentPerRequest ==
  [][\A r \in Requests :
       /\ Cardinality(Of(r)') <= 1
       /\ (Of(r)' # {}) <=> (txn'[r] = "committed")
       /\ outcome'[r] \in {"APPROVED", "BLOCKED"}
            => \E s \in Of(r)' : s.status = outcome'[r]
       /\ outcome'[r] \in Rejections => Of(r)' = {}
       /\ Of(r)' # Of(r) => (CommitStep(r) /\ Of(r) = {})]_vars

\* one request was committed and answered 201, and another one failed at the write
\* step and has no shipment
C18_Witness ==
  \E r, o \in Requests :
    /\ outcome[r] \in {"APPROVED", "BLOCKED"}
    /\ Cardinality(Of(r)) = 1
    /\ outcome[o] = "CREATE_ERROR"
    /\ qty[o] >= 1
    /\ Of(o) = {}
    /\ Cardinality(shipments) = 1

C20_BlockedHasNotification ==
  Cardinality(Blocked) <= contract.notificationsSent.exceeded

\* the events of request r that are out
EventsOf(r) == {e \in events : e.req = r}

\* C21: a throw of sendShipmentNotification is not an error of the request: the
\* step after the dispatcher call, failed or not, leaves the ledger as it is and the
\* handler at the broadcast with nothing thrown, and a request whose dispatcher call
\* failed emits both events and answers BLOCKED like one whose call succeeded.
C21_EmailFailureSwallowed ==
  [][\A r \in Requests :
       /\ (pc[r] = "email" /\ pc'[r] \notin {"email", "crashed"})
            => /\ mail'[r] \in {"sent", "failed"}
               /\ pc'[r] = "emit"
               /\ err'[r] = ""
               /\ status'[r] = "BLOCKED"
               /\ txn'[r] = "committed"
               /\ contract' = contract
               /\ shipments' = shipments
       /\ (mail[r] = "failed" /\ pc[r] = "emit" /\ pc'[r] = "finally" /\ err'[r] = "")
            => /\ outcome'[r] = "BLOCKED"
               /\ Cardinality(EventsOf(r)') = 2
       /\ (mail[r] = "failed" /\ pc[r] = "finally" /\ pc'[r] = "done")
            => outcome'[r] = "BLOCKED"]_vars

\* the dispatcher failed for a BLOCKED admission that was answered 201, its shipment
\* and the lock of the contract are persisted and both events are out
C21_Witness ==
  \E r \in Requests :
    /\ mail[r] = "failed"
    /\ outcome[r] = "BLOCKED"
    /\ pc[r] = "done"
    /\ \E s \in Blocked : s.req = r
    /\ contract.isLocked
    /\ Cardinality(EventsOf(r)) = 2

\* C22: a throw of io.emit after the commit is swallowed: whatever happens in the
\* broadcast step, the request goes on to its 201 response with the committed status
\* and nothing thrown, and the ledger stays as committed.
C22_BroadcastFailureSwallowed ==
  [][\A r \in Requests :
       (pc[r] = "emit" /\ pc'[r] \notin {"emit", "crashed"})
         => /\ err'[r] = ""
            /\ outcome'[r] = status[r]
            /\ shipments' = shipments
            /\ contract' = contract]_vars

C24_OneScopedEventPerAdmission ==
  \A r \in Requests :
    (pc[r] = "done" /\ txn[r] = "committed")
      => /\ \E e \in EventsOf(r) :
              /\ e.name = "shipment:created"
              /\ e.to = "contract"
              /\ \A f \in EventsOf(r) : f.name = "shipment:created" => f = e
         /\ ((\E s \in Of(r) : s.status = "BLOCKED")
               <=> \E e \in EventsOf(r) :
                     e.name = "contract:threshold_exceeded" /\ e.to = "all")

\* C25: the dispatcher is called for a request exactly when the request committed a
\* BLOCKED shipment (one call per request: mail[r] records it), never for an APPROVED
\* one and never on an error path.
C25_DispatcherOncePerBlocked ==
  \A r \in Requests :
    pc[r] = "done"
      => (mail[r] # "none" <=> \E s \in Of(r) : s.status = "BLOCKED")

\* C26: a request turned away at the acquisition although the key is free (the lock
\* backend failed, nobody holds the lock) is not answered with the contention
\* outcome that a request finding the lock held receives.
C26_BackendFailureDistinctFromHeld ==
  [][\A r \in Requests :
       (pc[r] = "acquire" /\ lock = NoLock /\ pc'[r] = "done")
         => outcome'[r] # "CONCURRENT_SHIPMENT"]_vars

\* C27: the ledger transaction of a request is opened only while the request holds
\* the lock, and the first release of the lock by a request happens only after its
\* transaction has committed or aborted.
C27_LockBracketsTransaction ==
  [][\A r \in Requests :
       /\ (txn[r] # "active" /\ txn'[r] = "active") => lock = r
       /\ (r \notin released /\ r \in released')
            => txn[r] \in {"committed", "aborted"}]_vars

\* C28: once the lock guarantee has been violated (the key expired under a holder
\* that was still working, so requests overlap in the read-check-write), the
\* persisted batteriesShipped still never exceeds the threshold and no two persisted
\* increments were computed from the same batteriesShipped.
C28_QuotaWithoutLock ==
  overrun =>
    /\ contract.exists => contract.batteriesShipped <= contract.threshold
    /\ \A s, t \in Approved : s.req # t.req => s.pre # t.pre

\* the key expired under a working holder, two requests that both fit the quota on
\* their own read the same batteriesShipped, one has committed its increment and
\* the conditional update of the other one was refused
C28_Witness ==
  \E r \in Requests, s \in Approved :
    /\ overrun
    /\ s.req # r
    /\ pc[r] = "finally"
    /\ err[r] = "WRITE_CONFLICT"
    /\ snap[r].batteriesShipped = s.pre
    /\ shipBatteriesFilter(snap[r], qty[r])
    /\ s.pre + s.batteriesShipped + qty[r] > contract.threshold

\* the responses the handler sends: 400, 423 (lock not acquired), 201 with the
\* status, 404, 423 (contract locked), 500
Responses ==
  {"VALIDATION_FAILED", "CONCURRENT_SHIPMENT", "APPROVED", "BLOCKED",
   "CONTRACT_NOT_FOUND", "CONTRACT_LOCKED", "CREATE_ERROR"}

\* C29: a request whose handler has ended has been answered with one outcome (admit,
\* block or one error), and a request that does not get the lock is answered in
\* that very step instead of waiting for it.
C29_OneOutcomeDelivered ==
  [][\A r \in Requests :
       /\ pc'[r] = "done" => outcome'[r] \in Responses
       /\ (pc[r] = "done" /\ pc'[r] = "done") => outcome'[r] = outcome[r]
       /\ (pc[r] = "acquire" /\ lock # NoLock /\ pc'[r] # "crashed")
            => (pc'[r] \in {"acquire", "done"} /\ lock' # r)]_vars

\* the persisted batteriesShipped of the contract as of the commit of shipment s
AsOfCommit(s) ==
  IF s.status = "APPROVED" THEN s.pre + s.batteriesShipped ELSE s.pre

\* C30: the contract.batteriesShipped that the 'shipment:created' event of an
\* APPROVED or BLOCKED request reports is the persisted batteriesShipped as of that
\* request's commit.
C30_ReportsCurrentTotal ==
  \A e \in events :
    e.name = "shipment:created"
      => \A s \in Of(e.req) : e.batteriesShipped = AsOfCommit(s)

\* ------------------------------------------------------------ contract status

MaxStatusThreshold == 10

\* a quotient the code computes in floating point, kept as numerator and denominator;
\* for the operands used here the double (x / y) * 100 compares to 80 and to 100 as
\* the exact quotient does
Quotient(x, y) == [num |-> x, den |-> y]

\* percentage >= bound, for a positive denominator
Gte(pct, bound) == pct.num >= bound * pct.den

\* virtual('thresholdPercentage'):
\* this.threshold > 0 ? (this.batteriesShipped / this.threshold) * 100 : 0
thresholdPercentage(doc) ==
  IF doc.threshold > 0 THEN Quotient(doc.batteriesShipped * 100, doc.threshold)
                       ELSE Quotient(0, 1)

\* virtual('status')
statusVirtual(doc) ==
  IF doc.isLocked THEN "LOCKED"
  ELSE IF Gte(thresholdPercentage(doc), 100) THEN "EXCEEDED"
  ELSE IF Gte(thresholdPercentage(doc), 80) THEN "WARNING"
  ELSE "ACTIVE"

\* mutant: the WARNING branch of the pipeline uses $gt
pipelineStatus_Gt(doc) ==
  IF doc.threshold = 0 THEN "FETCH_ERROR"
  ELSE LET pct == Quotient(doc.batteriesShipped * 100, doc.threshold) IN
    IF doc.isLocked = TRUE THEN "LOCKED"
    ELSE IF Gte(pct, 100) THEN "EXCEEDED"
    ELSE IF pct.num > 80 * pct.den THEN "WARNING"
    ELSE "ACTIVE"

\* the $addFields stage of GET /contracts: $switch over $eq isLocked true,
\* $gte [$multiply [$divide [batteriesShipped, threshold], 100], 100], the same with
\* 80, default ACTIVE; $divide by 0 fails the aggregation
pipelineStatus(doc) ==
  IF doc.threshold = 0 THEN "FETCH_ERROR"
  ELSE LET pct == Quotient(doc.batteriesShipped * 100, doc.threshold) IN
    IF doc.isLocked = TRUE THEN "LOCKED"
    ELSE IF Gte(pct, 100) THEN "EXCEEDED"
    ELSE IF Gte(pct, 80) THEN "WARNING"
    ELSE "ACTIVE"

\* GET /contracts: the status the pipeline adds to the contract
GetContracts ==
  /\ contract.exists
  /\ got' = [got EXCEPT !.list = pipelineStatus(contract)]
  /\ UNCHANGED <<mainVars, extendVars, createVars, socketVars, clientVars>>

\* GET /contracts/:contractId: findOne, 404 or res.json({ contract }) with the virtuals
GetContract ==
  /\ got' = [got EXCEPT !.one = IF contract.exists THEN statusVirtual(contract)
                                                  ELSE "CONTRACT_NOT_FOUND"]
  /\ UNCHANGED <<mainVars, extendVars, createVars, socketVars, clientVars>>

\* the shipment an earlier, finished request left when it was admitted with quantity q
earlierShipment(q) ==
  [req |-> 0, batteriesShipped |-> q, status |-> "APPROVED", blockReason |-> NoReason,
   pre |-> 0, episode |-> 0]

\* a contract with any threshold, after at most one admitted shipment and possibly a
\* manual lock, and no request in flight
StatusInit ==
  /\ \E t \in 1..MaxStatusThreshold, shipped \in 0..MaxStatusThreshold, locked \in BOOLEAN :
       /\ shipped <= t
       /\ contract = [newContract(t) EXCEPT
                        !.batteriesShipped = shipped,
                        !.isLocked = locked,
                        !.notificationsSent.locked = IF locked THEN 1 ELSE 0]
       /\ shipments = IF shipped > 0 THEN {earlierShipment(shipped)} ELSE {}
  /\ InitRequests
  /\ InitAdmins
  /\ SideInit

StatusNext ==
  \/ GetContracts
  \/ GetContract

StatusSpec == StatusInit /\ [][StatusNext]_vars

\* C31: the status virtual is LOCKED if isLocked, else EXCEEDED if batteriesShipped >=
\* threshold, else WARNING if 100 * batteriesShipped >= 80 * threshold, else ACTIVE,
\* and the status GET /contracts computes for a contract with threshold >= 1 is the
\* status virtual of the same document.
C31_DerivedStatus ==
  LET expected ==
        IF contract.isLocked THEN "LOCKED"
        ELSE IF contract.batteriesShipped >= contract.threshold THEN "EXCEEDED"
        ELSE IF 100 * contract.batteriesShipped >= 80 * contract.threshold THEN "WARNING"
        ELSE "ACTIVE"
  IN /\ got.one # "" => got.one = expected
     /\ got.list # "" => got.list = expected
     /\ contract.threshold >= 1 => pipelineStatus(contract) = statusVirtual(contract)

\* both routes have answered for an unlocked contract at exactly 80 % of its
\* threshold
C31_Witness ==
  /\ ~contract.isLocked
  /\ 100 * contract.batteriesShipped = 80 * contract.threshold
  /\ got.list = "WARNING"
  /\ got.one = "WARNING"

Lifetimes == {0, 1, 500, 1000, 5000, 10000}

Timeouts == {1, 500, 999, 1000, 1001, 1500, 2000, 10000, 30000}

\* the reply of EXPIRE as the Redis client hands it over: the integer of the protocol,
\* or a boolean when the client converts it (the client version is not fixed in src/)
Replies == {"integer", "boolean"}

\* EXPIRE key seconds: 0 when the key is absent; a present key gets the new lifetime,
\* and is deleted when seconds is not positive; the reply is 1
expire(pttl, seconds) ==
  IF pttl = 0 THEN [reply |-> 0, pttl |-> 0]
  ELSE IF seconds <= 0 THEN [reply |-> 1, pttl |-> 0]
  ELSE [reply |-> 1, pttl |-> seconds * 1000]

\* const result = await redisClient.expire(lockKey, Math.floor(timeout / 1000));
\* return result === 1
extendLock(pttl, timeout, reply) ==
  LET res == expire(pttl, timeout \div 1000)
  IN [ok |-> (reply = "integer" /\ res.reply = 1), pttl |-> res.pttl]

\* one call of extendLock on the key
ExtendLock ==
  /\ ext.result = "none"
  /\ LET res == extendLock(key, ext.timeout, ext.reply) IN
       /\ key' = res.pttl
       /\ ext' = [ext EXCEPT !.result = IF res.ok THEN "ok" ELSE "expired"]
  /\ UNCHANGED <<mainVars, statusVars, createVars, socketVars, clientVars>>

\* a key that is absent or has some lifetime left, and a call with a positive timeout
ExtendInit ==
  /\ contract = NoContract
  /\ shipments = {}
  /\ InitRequests
  /\ InitAdmins
  /\ InitGot
  /\ InitCreate
  /\ InitSockets
  /\ InitClient
  /\ key \in Lifetimes
  /\ \E t \in Timeouts, f \in Replies :
       ext = [timeout |-> t, reply |-> f, result |-> "none"]

ExtendNext == ExtendLock

ExtendSpec == ExtendInit /\ [][ExtendNext]_vars

\* C33: extendLock answers success only if the key is held afterwards with at least
\* timeout ms left, and answers failure when the key is absent.
C33_ExtendKeepsLock ==
  [][ext'.result # ext.result =>
       /\ ext'.result = "ok" => (key' > 0 /\ key' >= ext.timeout)
       /\ key = 0 => ext'.result = "expired"]_vars

\* the step is the write of the PATCH /:contractId/lock request a
ManualWriteStep(a) == adm[a].pc = "addNotification" /\ adm'[a].pc = "save"

\* C34: the write of a PATCH /:contractId/lock request leaves the contract with
\* isLocked equal to the value the request asked for (the supplied boolean, or the
\* negation of the value it found), with batteriesShipped, threshold and deviceCount
\* as they were and with exactly one more notification, CONTRACT_LOCKED if the
\* resulting isLocked is true and CONTRACT_UNLOCKED otherwise; no other step of the
\* request, and no request for an unknown contract, changes the contract.
C34_ManualLock ==
  [][\A a \in Admins :
       /\ ManualWriteStep(a) =>
            /\ contract'.isLocked = adm[a].isLocked
            /\ contract'.batteriesShipped = contract.batteriesShipped
            /\ contract'.threshold = contract.threshold
            /\ contract'.deviceCount = contract.deviceCount
            /\ contract'.notificationsSent =
                 IF contract'.isLocked
                   THEN [contract.notificationsSent EXCEPT !.locked = @ + 1]
                   ELSE [contract.notificationsSent EXCEPT !.unlocked = @ + 1]
       /\ (adm'[a] # adm[a] /\ ~ManualWriteStep(a)) => contract' = contract]_vars

\* ------------------------------------------------------------ two manual toggles

\* two PATCH /:contractId/lock requests without isLocked in the body
Togglers == 1..2

\* a contract after at most one admitted shipment, unlocked or locked by hand, two
\* toggle requests not yet arrived and no admission in flight
ToggleInit ==
  /\ \E shipped \in 0..Threshold, locked \in BOOLEAN :
       /\ contract = [newContract(Threshold) EXCEPT
                        !.batteriesShipped = shipped,
                        !.isLocked = locked,
                        !.notificationsSent.locked = IF locked THEN 1 ELSE 0]
       /\ shipments = IF shipped > 0 THEN {earlierShipment(shipped)} ELSE {}
  /\ InitRequests
  /\ adm = [a \in Togglers |-> [pc |-> "idle", readLocked |-> FALSE, isLocked |-> FALSE]]
  /\ SideInit

ToggleNext ==
  \/ \E a \in Togglers : ManualFind(a, "undefined")
  \/ \E a \in Togglers : ManualAddNotification(a)
  \/ \E a \in Togglers : ManualSave(a)

ToggleSpec == ToggleInit /\ [][ToggleNext]_vars

\* the toggle requests that have written the contract
Written == {a \in Togglers : adm[a].pc \in {"save", "done"}}

\* isLocked of the contract before the toggles: every write appended one lock or
\* unlock notification, and a contract that started locked had one lock notification
WasLocked ==
  contract.notificationsSent.locked + contract.notificationsSent.unlocked
    - Cardinality(Written) = 1

\* C35: when both toggle requests have finished, isLocked is what it was before them,
\* whatever the interleaving.
C35_TwoTogglesRestore ==
  (\A a \in Togglers : adm[a].pc = "done") => contract.isLocked = WasLocked

\* ------------------------------------------------------------ POST /contracts

\* req.body.contractId and req.body.threshold of the requests (threshold 0 is invalid)
CreateIds == {"PBR-1", "PBR-2"}

CreateThresholds == 0..2

\* the documents of the collection with the given contractId
WithId(id) == {d \in coll : d.doc.contractId = id}

\* validationResult(req): 400, or on to findOne
CreateValidate(c, id, t) ==
  /\ crt[c].pc = "idle"
  /\ crt' = [crt EXCEPT ![c] =
       IF t >= 1 THEN [pc |-> "find", contractId |-> id, threshold |-> t, outcome |-> ""]
                 ELSE [pc |-> "done", contractId |-> id, threshold |-> t,
                       outcome |-> "VALIDATION_FAILED"]]
  /\ UNCHANGED <<mainVars, statusVars, extendVars, socketVars, clientVars, coll>>

\* const existingContract = await Contract.findOne({ contractId }): 409 when found
CreateFind(c) ==
  /\ crt[c].pc = "find"
  /\ crt' = [crt EXCEPT ![c] =
       IF WithId(crt[c].contractId) # {}
         THEN [@ EXCEPT !.pc = "done", !.outcome = "CONTRACT_EXISTS"]
         ELSE [@ EXCEPT !.pc = "save"]]
  /\ UNCHANGED <<mainVars, statusVars, extendVars, socketVars, clientVars, coll>>

\* the document new Contract({contractId, deviceCount, threshold, ...}) of request c
createdBy(c) ==
  [id |-> c,
   doc |-> [newContract(crt[c].threshold) EXCEPT !.contractId = crt[c].contractId]]

\* mutant: the collection has no unique index on contractId
CreateSave_NoIndex(c) ==
  /\ crt[c].pc = "save"
  /\ coll' = coll \cup {createdBy(c)}
  /\ crt' = [crt EXCEPT ![c].pc = "emit"]
  /\ UNCHANGED <<mainVars, statusVars, extendVars, socketVars, clientVars>>

\* await contract.save(): the unique index on contractId refuses a second document
\* with the same key (duplicate key error, caught: 500 CREATE_ERROR)
CreateSave(c) ==
  /\ crt[c].pc = "save"
  /\ IF WithId(crt[c].contractId) # {}
       THEN /\ crt' = [crt EXCEPT ![c].pc = "done", ![c].outcome = "CREATE_ERROR"]
            /\ UNCHANGED coll
       ELSE /\ coll' = coll \cup {createdBy(c)}
            /\ crt' = [crt EXCEPT ![c].pc = "emit"]
  /\ UNCHANGED <<mainVars, statusVars, extendVars, socketVars, clientVars>>

\* io.emit('contract:created', ...); res.status(201).json(...); a throw of io.emit is
\* caught by the handler's catch: 500 CREATE_ERROR
CreateRespond(c) ==
  /\ crt[c].pc = "emit"
  /\ \E ok \in BOOLEAN :
       crt' = [crt EXCEPT ![c].pc = "done",
                          ![c].outcome = IF ok THEN "CREATED" ELSE "CREATE_ERROR"]
  /\ UNCHANGED <<mainVars, statusVars, extendVars, socketVars, clientVars, coll>>

\* findOne or save rejects (backend unavailable): 500 CREATE_ERROR
CreateFail(c) ==
  /\ crt[c].pc \in {"find", "save"}
  /\ crt' = [crt EXCEPT ![c].pc = "done", ![c].outcome = "CREATE_ERROR"]
  /\ UNCHANGED <<mainVars, statusVars, extendVars, socketVars, clientVars, coll>>

CreateNext ==
  \/ \E c \in Creators, id \in CreateIds, t \in CreateThresholds : CreateValidate(c, id, t)
  \/ \E c \in Creators : CreateFind(c)
  \/ \E c \in Creators : CreateSave(c)
  \/ \E c \in Creators : CreateRespond(c)
  \/ \E c \in Creators : CreateFail(c)

CreateSpec == Init /\ [][CreateNext]_vars

\* C36: every contract in the collection was created ACTIVE with batteriesShipped 0
\* and isLocked false, no two documents have the same contractId, and a request that
\* finds or hits an existing contractId is rejected and leaves the collection as it is.
C36_CreateUnique ==
  [][/\ \A d \in coll' \ coll :
          /\ d.doc.batteriesShipped = 0
          /\ d.doc.isLocked = FALSE
          /\ statusVirtual(d.doc) = "ACTIVE"
          /\ pipelineStatus(d.doc) = "ACTIVE"
     /\ \A d, e \in coll' : d.doc.contractId = e.doc.contractId => d = e
     /\ coll \subseteq coll'
     /\ \A c \in Creators :
          (crt[c].pc \in {"find", "save"} /\ crt'[c].pc = "done"
             /\ WithId(crt[c].contractId) # {})
            => (crt'[c].outcome \in {"CONTRACT_EXISTS", "CREATE_ERROR"} /\ coll' = coll)]_vars

\* two requests for the same contractId with different thresholds: one created the
\* contract, the other one was answered CREATE_ERROR, and one document exists
C36_Witness ==
  \E c, d \in Creators :
    /\ c # d
    /\ crt[c].contractId = crt[d].contractId
    /\ crt[c].outcome = "CREATED"
    /\ crt[d].outcome = "CREATE_ERROR"
    /\ crt[c].threshold # crt[d].threshold
    /\ Cardinality(WithId(crt[c].contractId)) = 1

\* ------------------------------------------------------------ socket handlers

\* socket.userRole as set by the authentication middleware
Roles == {"admin", "manager"}

\* the argument of join:contract and leave:contract; "" is falsy
JoinIds == {"", "admin"}

\* events passed to broadcastToAdmins
AdminEvents == {"admin:action_performed"}

\* room names, as the pieces the template strings put together: 'admin' is <<"admin">>,
\* `contract:${contractId}` is <<"contract", contractId>>
AdminRoom == <<"admin">>

contractRoom(id) == <<"contract", id>>

\* the open sockets that are in the room
members(room) == {s \in Sockets : socks[s].state = "open" /\ room \in socks[s].rooms}

\* delivery of an event to a set of sockets
deliver(to, name, code) == recv \cup {[to |-> s, name |-> name, code |-> code] : s \in to}

\* io.use passes and io.on('connection'): join user:<id>, role:<role> and, for an
\* admin, 'admin'
Connect(s, role) ==
  /\ socks[s].state = "new"
  /\ socks' = [socks EXCEPT ![s] =
       [state |-> "open", role |-> role,
        rooms |-> {<<"user", s>>, <<"role", role>>}
                    \cup (IF role = "admin" THEN {AdminRoom} ELSE {})]]
  /\ UNCHANGED <<mainVars, statusVars, extendVars, createVars, clientVars, recv>>

\* io.use refuses the handshake (no token, invalid token, inactive user)
ConnectRefused(s) ==
  /\ socks[s].state = "new"
  /\ socks' = [socks EXCEPT ![s].state = "closed"]
  /\ UNCHANGED <<mainVars, statusVars, extendVars, createVars, clientVars, recv>>

\* mutant: the room is the argument itself, without the contract: prefix
JoinContract_NoPrefix(s, id) ==
  /\ socks[s].state = "open"
  /\ socks' = IF id # "" THEN [socks EXCEPT ![s].rooms = @ \cup {<<id>>}] ELSE socks
  /\ UNCHANGED <<mainVars, statusVars, extendVars, createVars, clientVars, recv>>

\* socket.on('join:contract'): if (contractId) socket.join(`contract:${contractId}`)
JoinContract(s, id) ==
  /\ socks[s].state = "open"
  /\ socks' = IF id # "" THEN [socks EXCEPT ![s].rooms = @ \cup {contractRoom(id)}]
                         ELSE socks
  /\ UNCHANGED <<mainVars, statusVars, extendVars, createVars, clientVars, recv>>

\* socket.on('leave:contract'): if (contractId) socket.leave(`contract:${contractId}`)
LeaveContract(s, id) ==
  /\ socks[s].state = "open"
  /\ socks' = IF id # "" THEN [socks EXCEPT ![s].rooms = @ \ {contractRoom(id)}]
                         ELSE socks
  /\ UNCHANGED <<mainVars, statusVars, extendVars, createVars, clientVars, recv>>

\* socket.on('monitor:contracts'): socket.join('contract:monitor')
MonitorContracts(s) ==
  /\ socks[s].state = "open"
  /\ socks' = [socks EXCEPT ![s].rooms = @ \cup {contractRoom("monitor")}]
  /\ UNCHANGED <<mainVars, statusVars, extendVars, createVars, clientVars, recv>>

\* socket.on('monitor:shipments'): socket.join('shipment:monitor')
MonitorShipments(s) ==
  /\ socks[s].state = "open"
  /\ socks' = [socks EXCEPT ![s].rooms = @ \cup {<<"shipment", "monitor">>}]
  /\ UNCHANGED <<mainVars, statusVars, extendVars, createVars, clientVars, recv>>

\* socket.on('admin:action'): a non-admin gets 'error' PERMISSION_DENIED; an admin's
\* action goes to the other sockets of the 'admin' room
AdminAction(s) ==
  /\ socks[s].state = "open"
  /\ recv' = IF socks[s].role # "admin"
               THEN deliver({s}, "error", "PERMISSION_DENIED")
               ELSE deliver(members(AdminRoom) \ {s}, "admin:action_performed", "")
  /\ UNCHANGED <<mainVars, statusVars, extendVars, createVars, clientVars, socks>>

\* broadcastToAdmins(event, data): io.to('admin').emit(event, ...)
BroadcastToAdmins(e) ==
  /\ recv' = deliver(members(AdminRoom), e, "")
  /\ UNCHANGED <<mainVars, statusVars, extendVars, createVars, clientVars, socks>>

\* socket.on('disconnect'): the socket has left all its rooms
Disconnect(s) ==
  /\ socks[s].state = "open"
  /\ socks' = [socks EXCEPT ![s].state = "closed", ![s].rooms = {}]
  /\ UNCHANGED <<mainVars, statusVars, extendVars, createVars, clientVars, recv>>

SocketNext ==
  \/ \E s \in Sockets, role \in Roles : Connect(s, role)
  \/ \E s \in Sockets : ConnectRefused(s)
  \/ \E s \in Sockets, id \in JoinIds : JoinContract(s, id)
  \/ \E s \in Sockets, id \in JoinIds : LeaveContract(s, id)
  \/ \E s \in Sockets : MonitorContracts(s)
  \/ \E s \in Sockets : MonitorShipments(s)
  \/ \E s \in Sockets : AdminAction(s)
  \/ \E e \in AdminEvents : BroadcastToAdmins(e)
  \/ \E s \in Sockets : Disconnect(s)

SocketSpec == Init /\ [][SocketNext]_vars

\* C37: an open socket is in the 'admin' room exactly when its role is admin; an
\* admin:action of a non-admin socket delivers nothing but the PERMISSION_DENIED error
\* to that socket; admin:action_performed is delivered to admin sockets only.
C37_AdminIsolation ==
  [][/\ \A s \in Sockets :
          socks'[s].state = "open"
            => (AdminRoom \in socks'[s].rooms <=> socks'[s].role = "admin")
     /\ \A s \in Sockets :
          (AdminAction(s) /\ socks[s].role # "admin")
            => recv' = recv \cup {[to |-> s, name |-> "error", code |-> "PERMISSION_DENIED"]}
     /\ \A d \in recv' :
          d.name = "admin:action_performed" => socks'[d.to].role = "admin"]_vars

\* a manager that joined the room contract:admin was refused an admin:action, and
\* the action of an admin reached the other admin
C37_Witness ==
  \E s, a, b \in Sockets :
    /\ socks[s].state = "open" /\ socks[s].role = "manager"
    /\ contractRoom("admin") \in socks[s].rooms
    /\ [to |-> s, name |-> "error", code |-> "PERMISSION_DENIED"] \in recv
    /\ a # b
    /\ socks[a].role = "admin" /\ socks[b].role = "admin"
    /\ [to |-> b, name |-> "admin:action_performed", code |-> ""] \in recv
    /\ ~ \E d \in recv : d.to = s /\ d.name = "admin:action_performed"

\* ------------------------------------------------------------ client

\* payloads of setCredentials: the body of a login or refresh response
Credentials ==
  {[user |-> u, tokens |-> [accessToken |-> t[1], refreshToken |-> t[2]]] :
     u \in {"u1", "u2"}, t \in {<<"a1", "r1">>, <<"a2", "r2">>, <<"a3", "r3">>}}

\* the args of a call of baseQueryWithReauth: the endpoint
QueryArgs == {"/contracts", "/shipments"}

\* JSON.stringify(user) and JSON.parse(user)
stringify(user) == <<"json", user>>

parse(text) == text[2]

\* localStorage with nothing of the application in it
NoStorage == [token |-> Null, refreshToken |-> Null, user |-> Null]

\* initialState of the slice, evaluated when the module is loaded
initialState(store) ==
  [user |-> Null,
   token |-> store.token,
   refreshToken |-> store.refreshToken,
   isAuthenticated |-> store.token # Null]

\* reducer setCredentials, with its localStorage.setItem calls
setCredentials(state, store, payload) ==
  [auth |-> [user |-> payload.user,
             token |-> payload.tokens.accessToken,
             refreshToken |-> payload.tokens.refreshToken,
             isAuthenticated |-> TRUE],
   storage |-> [token |-> payload.tokens.accessToken,
                refreshToken |-> payload.tokens.refreshToken,
                user |-> stringify(payload.user)]]

\* reducer logout, with its localStorage.removeItem calls
logout(state, store) ==
  [auth |-> [user |-> Null, token |-> Null, refreshToken |-> Null,
             isAuthenticated |-> FALSE],
   storage |-> NoStorage]

\* reducer initializeAuth
initializeAuth(state, store) ==
  [auth |-> IF store.token # Null /\ store.refreshToken # Null /\ store.user # Null
              THEN [user |-> parse(store.user),
                    token |-> store.token,
                    refreshToken |-> store.refreshToken,
                    isAuthenticated |-> TRUE]
              ELSE state,
   storage |-> store]

\* dispatch(setCredentials(result)) after a login or a registration
Login(payload) ==
  /\ LET res == setCredentials(auth, storage, payload) IN
       auth' = res.auth /\ storage' = res.storage
  /\ UNCHANGED <<mainVars, statusVars, extendVars, createVars, socketVars, bq>>

\* dispatch(logout())
Logout ==
  /\ LET res == logout(auth, storage) IN
       auth' = res.auth /\ storage' = res.storage
  /\ UNCHANGED <<mainVars, statusVars, extendVars, createVars, socketVars, bq>>

\* store.dispatch(initializeAuth())
InitializeAuth ==
  /\ LET res == initializeAuth(auth, storage) IN
       auth' = res.auth /\ storage' = res.storage
  /\ UNCHANGED <<mainVars, statusVars, extendVars, createVars, socketVars, bq>>

\* results of a base query: data, or an error with status 401 or another status
QueryResults == {"data", "401", "500"}

NoCall == [pc |-> "idle", args |-> "", queries |-> 0, refreshes |-> 0, result |-> "none"]

\* let result = await baseQuery(args, api, extraOptions)
BaseQuery(args, res) ==
  /\ bq.pc = "idle"
  /\ bq' = [pc |-> IF res = "401" THEN "refresh" ELSE "done", args |-> args,
            queries |-> 1, refreshes |-> 0, result |-> res]
  /\ UNCHANGED <<mainVars, statusVars, extendVars, createVars, socketVars, auth, storage>>

\* the refresh query returns data: dispatch(setCredentials(refreshResult.data))
RefreshData(payload) ==
  /\ bq.pc = "refresh"
  /\ LET res == setCredentials(auth, storage, payload) IN
       auth' = res.auth /\ storage' = res.storage
  /\ bq' = [bq EXCEPT !.pc = "retry", !.queries = @ + 1, !.refreshes = @ + 1]
  /\ UNCHANGED <<mainVars, statusVars, extendVars, createVars, socketVars>>

\* the refresh query returns no data: dispatch(logout()), result stays the 401
RefreshError ==
  /\ bq.pc = "refresh"
  /\ LET res == logout(auth, storage) IN
       auth' = res.auth /\ storage' = res.storage
  /\ bq' = [bq EXCEPT !.pc = "done", !.queries = @ + 1, !.refreshes = @ + 1]
  /\ UNCHANGED <<mainVars, statusVars, extendVars, createVars, socketVars>>

\* mutant: a 401 of the retried query starts another refresh
RetryQuery_Again(res) ==
  /\ bq.pc = "retry"
  /\ bq.queries < 6
  /\ bq' = [bq EXCEPT !.pc = IF res = "401" THEN "refresh" ELSE "done",
                      !.queries = @ + 1, !.result = res]
  /\ UNCHANGED <<mainVars, statusVars, extendVars, createVars, socketVars, auth, storage>>

\* result = await baseQuery(args, api, extraOptions); return result
RetryQuery(res) ==
  /\ bq.pc = "retry"
  /\ bq' = [bq EXCEPT !.pc = "done", !.queries = @ + 1, !.result = res]
  /\ UNCHANGED <<mainVars, statusVars, extendVars, createVars, socketVars, auth, storage>>

\* the caller has the result; the next call of baseQueryWithReauth can start
Returned ==
  /\ bq.pc = "done"
  /\ bq' = NoCall
  /\ UNCHANGED <<mainVars, statusVars, extendVars, createVars, socketVars, auth, storage>>

\* the page is loaded with a localStorage that is empty or was left by an earlier
\* setCredentials
ClientInit ==
  /\ contract = NoContract
  /\ shipments = {}
  /\ InitRequests
  /\ InitAdmins
  /\ InitGot
  /\ InitExtend
  /\ InitCreate
  /\ InitSockets
  /\ storage \in {NoStorage} \cup {setCredentials(0, NoStorage, c).storage : c \in Credentials}
  /\ auth = initialState(storage)
  /\ bq = NoCall

ClientNext ==
  \/ \E c \in Credentials : Login(c)
  \/ Logout
  \/ InitializeAuth
  \/ \E args \in QueryArgs, res \in QueryResults : BaseQuery(args, res)
  \/ \E c \in Credentials : RefreshData(c)
  \/ RefreshError
  \/ \E res \in QueryResults : RetryQuery(res)
  \/ Returned

ClientSpec == ClientInit /\ [][ClientNext]_vars

\* C38: a call of baseQueryWithReauth makes at most three base queries and at most one
\* refresh; a first result other than 401 is returned after one query with no refresh;
\* on a 401 a refresh that returns data stores the new credentials and is followed by
\* exactly one retry whose result is returned whatever it is; a refresh without data
\* logs out and the 401 is returned without a retry.
C38_Reauth ==
  [][/\ bq'.queries <= 3 /\ bq'.refreshes <= 1
     /\ (bq.pc = "idle" /\ bq'.pc = "done") => (bq'.queries = 1 /\ bq'.result # "401")
     /\ (bq.pc = "idle" /\ bq'.pc = "refresh") => (bq'.queries = 1 /\ bq'.result = "401")
     /\ (bq.pc = "refresh" /\ bq'.pc = "retry")
          => /\ bq'.queries = 2 /\ bq'.refreshes = 1
             /\ \E c \in Credentials :
                  /\ auth'.token = c.tokens.accessToken
                  /\ auth'.refreshToken = c.tokens.refreshToken
                  /\ storage'.token = c.tokens.accessToken
     /\ (bq.pc = "refresh" /\ bq'.pc = "done")
          => /\ bq'.queries = 2 /\ bq'.refreshes = 1 /\ bq'.result = "401"
             /\ ~auth'.isAuthenticated /\ auth'.token = Null /\ storage' = NoStorage
     /\ bq.pc = "refresh" => bq'.pc \in {"refresh", "retry", "done"}
     /\ (bq.pc = "retry" /\ bq'.pc # "retry")
          => (bq'.pc = "done" /\ bq'.queries = 3 /\ bq'.refreshes = 1)
     /\ bq.pc = "done" => bq'.pc \in {"done", "idle"}
     /\ bq.pc \in {"refresh", "retry"} => bq'.args = bq.args]_vars

\* a call has ended after three queries with the second 401 as its result
C38_Witness ==
  /\ bq.pc = "done"
  /\ bq.queries = 3
  /\ bq.refreshes = 1
  /\ bq.result = "401"
  /\ auth.isAuthenticated

\* C39: in the client auth state, isAuthenticated is true only if user, token and
\* refreshToken are all non-null, the token and the refreshToken of the store are
\* those persisted in localStorage, and a logout leaves the three fields null,
\* isAuthenticated false and the three localStorage entries removed.
C39_AuthStateConsistent ==
  /\ auth.isAuthenticated
       => (auth.user # Null /\ auth.token # Null /\ auth.refreshToken # Null)
  /\ auth.token = storage.token
  /\ auth.refreshToken = storage.refreshToken
  /\ LET out == logout(auth, storage) IN
       /\ out.auth.user = Null /\ out.auth.token = Null /\ out.auth.refreshToken = Null
       /\ ~out.auth.isAuthenticated
       /\ out.storage = NoStorage

====
